---- MODULE Spec2Model ----
(***************************************************************************)
(* The judgement engine of the rhythm game (GameEngine) together with the  *)
(* part of the audio clock (AudioEngine) it drives.                         *)
(*                                                                         *)
(* Units.  Times are milliseconds.  hp is kept in units of 1/HpUnit so     *)
(* that hpDrainRate * 0.01 * timeMultiplier * 0.5 is exact.  Hit windows   *)
(* are kept in hundredths of a millisecond, the circle radius as a reduced *)
(* fraction, so that the modifier scalings (0.5, 1.3, 1.4) are exact.      *)
(* Angles are kept in quarter turns (pi/2); the pointer positions the      *)
(* model draws lie on the axes through the playfield centre (256,192), for *)
(* which Math.atan2 returns exact multiples of pi/2.                       *)
(***************************************************************************)
EXTENDS Integers, Sequences, FiniteSets, TLC

VARIABLES
    beatmap,            \* GameEngine.beatmap (loaded = FALSE stands for null)
    mods,               \* GameEngine.mods
    hitWindows,         \* GameEngine.hitWindows, hundredths of a millisecond
    circleRadius,       \* GameEngine.circleRadius, a fraction [n, d]
    gameState,          \* GameEngine.gameState
    judgements,         \* GameEngine.judgements
    activeSliders,      \* GameEngine.activeSliders, in insertion order
    activeSpinners,     \* GameEngine.activeSpinners, in insertion order
    processedObjects,   \* GameEngine.processedObjects
    currentTime,        \* GameEngine.currentTime
    isRunning,          \* GameEngine.isRunning
    replayFrames,       \* GameEngine.replayFrames: its length and last frame
    audioBuffer,        \* AudioEngine.audioBuffer: its duration in ms, 0 = none
    audioPlaying,       \* AudioEngine.isPlaying
    pauseTime,          \* AudioEngine.pauseTime
    audioPos,           \* the playback position last read from the audio context
    cb,                 \* what the latest call let its caller see: the
                        \* onStateUpdate invocations and a thrown TypeError
    onJudgementCalls,   \* onJudgement invocations since the last reset()
    onFailCalls,        \* onFail invocations since the last reset()
    onGameEndCalls,     \* onGameEnd invocations since the last reset()
    canvas              \* the GameCanvas component: its state and the
                        \* countdown intervals it has set

engineVars ==
    << beatmap, mods, hitWindows, circleRadius, gameState, judgements,
       activeSliders, activeSpinners, processedObjects, currentTime,
       isRunning, replayFrames, audioBuffer, audioPlaying, pauseTime,
       audioPos, cb, onJudgementCalls, onFailCalls, onGameEndCalls >>

vars == << engineVars, canvas >>

-----------------------------------------------------------------------------
(* Bounds of the model *)

MaxClicks == 2          \* handleClick calls recorded per run
MaxTicks == 2           \* slider ticks credited per slider
MaxRotation == 4        \* quarter turns accumulated per spinner
MaxCalls == 2           \* onFail / onGameEnd counters saturate here
MaxCountdowns == 2      \* countdown intervals set by restart() and pending

-----------------------------------------------------------------------------
(* Arithmetic helpers *)

Max(a, b) == IF a >= b THEN a ELSE b
Min(a, b) == IF a <= b THEN a ELSE b
Abs(a) == IF a >= 0 THEN a ELSE -a

RECURSIVE GCD(_, _)
GCD(a, b) == IF b = 0 THEN Abs(a) ELSE GCD(b, a % b)

\* the fraction n/d (d > 0) in lowest terms
Frac(n, d) == LET g == GCD(n, d) IN [n |-> n \div g, d |-> d \div g]

\* JavaScript's a % b on fractions over the same positive denominator d:
\* the remainder of num modulo d, with the sign of the dividend
JsRem(num, d) == IF num >= 0 THEN num % d ELSE -((-num) % d)

-----------------------------------------------------------------------------
(* types/game.ts *)

HpUnit == 16 * 100
HpMax == 100 * HpUnit

HIT_WINDOWS == [perfect |-> 5000, great |-> 10000, good |-> 15000]

SCORE_VALUES(result) ==
    CASE result = "perfect" -> 300
      [] result = "great" -> 100
      [] result = "good" -> 50
      [] result = "miss" -> 0

\* hp changes with a miss penalty of 10
HP_CHANGES_Harsh(result) ==
    CASE result = "perfect" -> 2 * HpUnit
      [] result = "great" -> 1 * HpUnit
      [] result = "good" -> HpUnit \div 2
      [] result = "miss" -> -10 * HpUnit

HP_CHANGES(result) ==
    CASE result = "perfect" -> 2 * HpUnit
      [] result = "great" -> 1 * HpUnit
      [] result = "good" -> HpUnit \div 2
      [] result = "miss" -> -5 * HpUnit

-----------------------------------------------------------------------------
(* Beatmaps: what parseOsuFile hands to the engine *)

Circle(x, y, t) == [type |-> "circle", x |-> x, y |-> y, time |-> t]

SliderObj(x, y, t, pts, slides, duration, tickCount) ==
    [type |-> "slider", x |-> x, y |-> y, time |-> t, curvePoints |-> pts,
     slides |-> slides, duration |-> duration, tickCount |-> tickCount]

SpinnerObj(t, endTime) ==
    [type |-> "spinner", x |-> 256, y |-> 192, time |-> t, endTime |-> endTime]

NoBeatmap ==
    [loaded |-> FALSE, title |-> "none", hitObjects |-> << >>, breaks |-> << >>,
     hpDrainRate |-> 0, circleSize |-> 0, overallDifficulty |-> 0]

\* two circles after a break; HPDrainRate is read with parseFloat and is not
\* range-checked, and this chart drains half of the hp in every frame
DrainChart ==
    [loaded |-> TRUE, title |-> "drain",
     hitObjects |-> << Circle(156, 192, 1000), Circle(256, 292, 1500) >>,
     breaks |-> << [startTime |-> 800, endTime |-> 1000] >>,
     hpDrainRate |-> 5000, circleSize |-> 4, overallDifficulty |-> 5]

\* a circle and a slider of 400 ms with three ticks
SliderChart ==
    [loaded |-> TRUE, title |-> "slider",
     hitObjects |-> << Circle(156, 192, 1000),
                       SliderObj(256, 292, 1500, << [x |-> 156, y |-> 192] >>,
                                 1, 400, 3) >>,
     breaks |-> << >>,
     hpDrainRate |-> 0, circleSize |-> 4, overallDifficulty |-> 5]

\* a spinner of 400 ms
SpinnerChart ==
    [loaded |-> TRUE, title |-> "spinner",
     hitObjects |-> << SpinnerObj(2000, 2400) >>,
     breaks |-> << >>,
     hpDrainRate |-> 0, circleSize |-> 4, overallDifficulty |-> 5]

\* two circles stacked on one position, 100 ms apart
StackChart ==
    [loaded |-> TRUE, title |-> "stack",
     hitObjects |-> << Circle(156, 192, 1000), Circle(156, 192, 1100) >>,
     breaks |-> << >>,
     hpDrainRate |-> 0, circleSize |-> 4, overallDifficulty |-> 5]

\* the charts and modifier sets of Spec
Beatmaps == { DrainChart }
ModSets == { {}, {"ez", "dt"} }

\* the charts and modifier sets of SpecObjects
ObjectBeatmaps == { SliderChart, SpinnerChart }
ObjectModSets == { {} }

\* three circles at 1000, 1500 and 2000 ms, with the given HPDrainRate
ThreeCircles(hpDrainRate) ==
    [loaded |-> TRUE, title |-> "three",
     hitObjects |-> << Circle(156, 192, 1000), Circle(256, 292, 1500),
                       Circle(156, 192, 2000) >>,
     breaks |-> << >>,
     hpDrainRate |-> hpDrainRate, circleSize |-> 4, overallDifficulty |-> 5]

\* the charts and modifier sets of SpecThree: no drain, and the drain of
\* DrainChart
ThreeBeatmaps == { ThreeCircles(0), ThreeCircles(DrainChart.hpDrainRate) }
ThreeModSets == { {} }

\* one circle, at overall difficulty od
DifficultyChart(od) ==
    [loaded |-> TRUE, title |-> "difficulty",
     hitObjects |-> << Circle(156, 192, 1000) >>,
     breaks |-> << >>,
     hpDrainRate |-> 0, circleSize |-> 4, overallDifficulty |-> od]

\* the largest overall difficulty of a chart, and the cap of the modifiers
MaxOD == 10

\* the charts and modifier sets of SpecDifficulty
DifficultyBeatmaps == { DifficultyChart(od) : od \in 0..MaxOD }
DifficultyModSets == SUBSET {"ez", "hr", "dt", "ht", "hd", "fl"}

\* a slider alone, so that a click within the good window before its time is
\* followed by frames that are still before its time
EarlyChart ==
    [loaded |-> TRUE, title |-> "early",
     hitObjects |-> << SliderObj(256, 292, 1500, << [x |-> 156, y |-> 192] >>,
                                 1, 400, 3) >>,
     breaks |-> << >>,
     hpDrainRate |-> 0, circleSize |-> 4, overallDifficulty |-> 5]

\* the charts and modifier sets of SpecEarly
EarlyBeatmaps == { EarlyChart }
EarlyModSets == { {} }

\* one circle, for the runs the game canvas starts
CanvasChart ==
    [loaded |-> TRUE, title |-> "canvas",
     hitObjects |-> << Circle(156, 192, 1000) >>,
     breaks |-> << >>,
     hpDrainRate |-> 0, circleSize |-> 4, overallDifficulty |-> 5]

\* the charts and modifier sets of SpecCanvas
CanvasBeatmaps == { CanvasChart }
CanvasModSets == { {} }

\* the charts and modifier sets of SpecWindows
WindowBeatmaps == { StackChart }
WindowModSets == { {} }

\* durations of the decoded audio, 0 = no audio loaded
AudioDurations == {0, 4000}

\* pointer positions the input handlers are called with: the objects' positions
Pointers == { <<156, 192>>, <<256, 292>> }

ObjectEnd(obj) ==
    CASE obj.type = "slider" -> obj.time + obj.duration
      [] obj.type = "spinner" -> obj.endTime
      [] OTHER -> obj.time

\* the playback positions a read of the audio clock returns: the objects' times,
\* the edges of their windows, the end of the grace margin and of the audio
ClockSamples(bm) ==
    CASE bm.title = "drain" -> {1000, 1100, 1150, 1500, 2501, 4000}
      [] bm.title = "slider" ->
             {1150, 1500, 1700, 2050, 2051, 2901}
      [] bm.title = "spinner" -> {2000, 2100, 2400, 2401, 3401, 4000}
      [] bm.title = "stack" -> {1040, 1050, 1070, 1100, 1150, 1250, 2101}
      [] bm.title = "three" -> {1000, 1500, 2000, 2151, 3001}
      [] bm.title = "early" -> {1400, 1450, 1500, 1700, 1900, 2901}
      [] bm.title = "canvas" -> {1000, 1151, 2001}
      [] OTHER -> {0}

-----------------------------------------------------------------------------
(* The engine's operations work on a snapshot of the variables *)

Cur ==
    [beatmap |-> beatmap, mods |-> mods, hitWindows |-> hitWindows,
     circleRadius |-> circleRadius, gameState |-> gameState,
     judgements |-> judgements, activeSliders |-> activeSliders,
     activeSpinners |-> activeSpinners, processedObjects |-> processedObjects,
     currentTime |-> currentTime, isRunning |-> isRunning,
     replayFrames |-> replayFrames, audioBuffer |-> audioBuffer,
     audioPlaying |-> audioPlaying, pauseTime |-> pauseTime,
     audioPos |-> audioPos, cb |-> cb, onJudgementCalls |-> onJudgementCalls,
     onFailCalls |-> onFailCalls, onGameEndCalls |-> onGameEndCalls]

Assign(s) ==
    /\ beatmap' = s.beatmap
    /\ mods' = s.mods
    /\ hitWindows' = s.hitWindows
    /\ circleRadius' = s.circleRadius
    /\ gameState' = s.gameState
    /\ judgements' = s.judgements
    /\ activeSliders' = s.activeSliders
    /\ activeSpinners' = s.activeSpinners
    /\ processedObjects' = s.processedObjects
    /\ currentTime' = s.currentTime
    /\ isRunning' = s.isRunning
    /\ replayFrames' = s.replayFrames
    /\ audioBuffer' = s.audioBuffer
    /\ audioPlaying' = s.audioPlaying
    /\ pauseTime' = s.pauseTime
    /\ audioPos' = s.audioPos
    /\ cb' = s.cb
    /\ onJudgementCalls' = s.onJudgementCalls
    /\ onFailCalls' = s.onFailCalls
    /\ onGameEndCalls' = s.onGameEndCalls

\* a call made on the engine that the canvas' own state does not depend on
Commit(s) == Assign(s) /\ canvas' = canvas

\* index k of the entry for hit object i in an insertion-ordered map, 0 if none
MapPos(m, i) ==
    IF \E k \in 1..Len(m) : m[k].index = i
    THEN CHOOSE k \in 1..Len(m) : m[k].index = i
    ELSE 0

MapHas(m, i) == MapPos(m, i) # 0

\* Map.set: an existing key keeps its place
MapSet(m, e) ==
    IF MapHas(m, e.index) THEN [m EXCEPT ![MapPos(m, e.index)] = e]
    ELSE Append(m, e)

\* a Map.delete that is left out
MapKeep(m, i) == m

\* Map.delete
MapDelete(m, i) == SelectSeq(m, LAMBDA e : e.index # i)

-----------------------------------------------------------------------------
(* AudioEngine *)

\* AudioEngine.stop: the source node is dropped, and its position with it
AudioStop(s) == [s EXCEPT !.audioPlaying = FALSE, !.pauseTime = 0, !.audioPos = 0]

\* AudioEngine.play(startOffset)
AudioPlay(s, startOffset) ==
    IF s.audioBuffer = 0 THEN s
    ELSE [AudioStop(s) EXCEPT !.audioPos = Max(0, startOffset),
                              !.audioPlaying = TRUE]

\* AudioEngine.getCurrentTime, given the position pos the audio context is at
AudioGetCurrentTime(s, pos) == IF ~s.audioPlaying THEN s.pauseTime ELSE pos

\* the positions the audio context can be at when it is read
ClockReads(s) ==
    IF ~s.audioPlaying THEN {s.audioPos}
    ELSE { t \in ClockSamples(s.beatmap) : t >= s.audioPos }

\* AudioEngine.pause, the context being at pos
AudioPause(s, pos) ==
    IF ~s.audioPlaying THEN s
    ELSE AudioStop([s EXCEPT !.pauseTime = AudioGetCurrentTime(s, pos)])

\* AudioEngine.resume
AudioResume(s) == IF s.audioPlaying THEN s ELSE AudioPlay(s, s.pauseTime)

\* AudioEngine.getDuration
AudioGetDuration(s) == s.audioBuffer

-----------------------------------------------------------------------------
(* GameEngine: difficulty, scoring, judging *)

\* the empty replay log
NoFrames == [len |-> 0, last |-> [time |-> 0, x |-> 0, y |-> 0, keys |-> 0]]

createInitialState ==
    [score |-> 0, combo |-> 0, maxCombo |-> 0, accuracy |-> [n |-> 100, d |-> 1],
     hp |-> HpMax, perfectCount |-> 0, greatCount |-> 0, goodCount |-> 0,
     missCount |-> 0]

\* modifier scaling without the cap at 10
ModScaledUncapped(s, base, hrNum) ==
    LET v0 == base * 100
        v1 == IF "ez" \in s.mods THEN v0 \div 2 ELSE v0
    IN  IF "hr" \in s.mods THEN (v1 * hrNum) \div 10 ELSE v1

\* circleSize / overallDifficulty after the modifiers, in hundredths
ModScaled(s, base, hrNum) ==
    LET v0 == base * 100
        v1 == IF "ez" \in s.mods THEN v0 \div 2 ELSE v0
    IN  IF "hr" \in s.mods THEN Min(1000, (v1 * hrNum) \div 10) ELSE v1

calculateDifficultyValues(s) ==
    IF ~s.beatmap.loaded THEN s
    ELSE LET cs == ModScaled(s, s.beatmap.circleSize, 13)
             od == ModScaled(s, s.beatmap.overallDifficulty, 14)
         IN  [s EXCEPT !.circleRadius = Frac(544000 - 448 * cs, 10000),
                       !.hitWindows = [perfect |-> 8000 - 6 * od,
                                       great |-> 14000 - 8 * od,
                                       good |-> 20000 - 10 * od]]

\* the product of the active modifiers' score factors, as a fraction
ModMultiplier(s) ==
    LET f(m, n, d, acc) == IF m \in s.mods THEN Frac(acc.n * n, acc.d * d) ELSE acc
        m1 == f("hr", 53, 50, [n |-> 1, d |-> 1])
        m2 == f("dt", 28, 25, m1)
        m3 == f("ht", 3, 10, m2)
        m4 == f("ez", 1, 2, m3)
        m5 == f("hd", 53, 50, m4)
    IN  f("fl", 28, 25, m5)

\* a score that leaves the combo out
addScoreNoCombo(s, baseNum, baseDen, applyCombo) ==
    LET mm == ModMultiplier(s)
    IN  [s EXCEPT !.gameState.score = @ + ((baseNum * mm.n) \div (baseDen * mm.d))]

\* addScore(basePoints, applyCombo) with basePoints = baseNum / baseDen
addScore(s, baseNum, baseDen, applyCombo) ==
    LET comboMultiplier == IF applyCombo THEN Max(1, s.gameState.combo) ELSE 1
        mm == ModMultiplier(s)
    IN  [s EXCEPT !.gameState.score =
             @ + ((baseNum * comboMultiplier * mm.n) \div (baseDen * mm.d))]

\* an accuracy that is not recomputed
updateAccuracyStale(s) == s

updateAccuracy(s) ==
    LET gs == s.gameState
        total == gs.perfectCount + gs.greatCount + gs.goodCount + gs.missCount
        weighted == gs.perfectCount * 300 + gs.greatCount * 100 + gs.goodCount * 50
    IN  IF total = 0 THEN [s EXCEPT !.gameState.accuracy = [n |-> 100, d |-> 1]]
        ELSE [s EXCEPT !.gameState.accuracy = Frac(weighted * 100, total * 300)]

\* a combo update that leaves maxCombo alone
ComboAfterNoMax(gs, result) ==
    IF result = "miss" THEN [gs EXCEPT !.combo = 0]
    ELSE [gs EXCEPT !.combo = @ + 1]

\* the combo and maxCombo after a judgement
ComboAfter(gs, result) ==
    IF result = "miss" THEN [gs EXCEPT !.combo = 0]
    ELSE [gs EXCEPT !.combo = @ + 1, !.maxCombo = Max(@, gs.combo + 1)]

\* outcome counters that leave a miss uncounted
CountAfterHitsOnly(gs, result) ==
    CASE result = "perfect" -> [gs EXCEPT !.perfectCount = @ + 1]
      [] result = "great" -> [gs EXCEPT !.greatCount = @ + 1]
      [] result = "good" -> [gs EXCEPT !.goodCount = @ + 1]
      [] result = "miss" -> gs

\* outcome counters with the cases of perfect and great swapped
CountAfterSwapped(gs, result) ==
    CASE result = "perfect" -> [gs EXCEPT !.greatCount = @ + 1]
      [] result = "great" -> [gs EXCEPT !.perfectCount = @ + 1]
      [] result = "good" -> [gs EXCEPT !.goodCount = @ + 1]
      [] result = "miss" -> [gs EXCEPT !.missCount = @ + 1]

\* the outcome counters after a judgement
CountAfter(gs, result) ==
    CASE result = "perfect" -> [gs EXCEPT !.perfectCount = @ + 1]
      [] result = "great" -> [gs EXCEPT !.greatCount = @ + 1]
      [] result = "good" -> [gs EXCEPT !.goodCount = @ + 1]
      [] result = "miss" -> [gs EXCEPT !.missCount = @ + 1]

\* the hp after a judgement without the clamp
HpAfterUnclamped(hp, result) == hp + HP_CHANGES(result)

\* the hp after a judgement
HpAfter(hp, result) == Max(0, Min(HpMax, hp + HP_CHANGES(result)))

processHit(s, objectIndex, result) ==
    LET s1 == [s EXCEPT !.processedObjects = @ \cup {objectIndex},
                        !.gameState = ComboAfter(CountAfter(@, result), result)]
        s2 == addScore(s1, SCORE_VALUES(result), 1, result # "miss")
        s3 == updateAccuracy([s2 EXCEPT !.gameState.hp = HpAfter(@, result)])
    IN  [s3 EXCEPT !.judgements =
                       Append(@, [time |-> s.currentTime, result |-> result,
                                  hitObject |-> objectIndex,
                                  points |-> SCORE_VALUES(result)]),
                   !.onJudgementCalls = @ + 1]

\* hit windows that exclude their upper boundary
getHitResultExclusive(s, timeDiff) ==
    IF timeDiff * 100 < s.hitWindows.perfect THEN "perfect"
    ELSE IF timeDiff * 100 < s.hitWindows.great THEN "great"
    ELSE IF timeDiff * 100 < s.hitWindows.good THEN "good"
    ELSE "miss"

getHitResult(s, timeDiff) ==
    IF timeDiff * 100 <= s.hitWindows.perfect THEN "perfect"
    ELSE IF timeDiff * 100 <= s.hitWindows.great THEN "great"
    ELSE IF timeDiff * 100 <= s.hitWindows.good THEN "good"
    ELSE "miss"

\* isPointInCircle(px, py, cx, cy, radius): the centre is (c.xn/c.q, c.yn/c.q),
\* the radius rad.n/rad.d.  No radius of the game exceeds 2.5 * 54.4 = 136, so
\* points further than 140 apart on an axis are outside.
isPointInCircle(px, py, c, rad) ==
    LET dx == px * c.q - c.xn
        dy == py * c.q - c.yn
    IN  /\ Abs(dx) <= 140 * c.q
        /\ Abs(dy) <= 140 * c.q
        /\ (dx * dx + dy * dy) * rad.d * rad.d <= rad.n * rad.n * c.q * c.q

At(x, y) == [xn |-> x, yn |-> y, q |-> 1]

\* getSliderPosition(slider, progress): ok = FALSE when allPoints[index] is
\* undefined and reading its x throws a TypeError
getSliderPosition(slider, progress) ==
    LET d == progress.d
        u == progress.n * slider.slides
        slideNumber == u \div d
        t0 == JsRem(u, d)
        t == IF slideNumber >= 0 /\ slideNumber % 2 = 1 THEN d - t0 ELSE t0
        allPoints == << [x |-> slider.x, y |-> slider.y] >> \o slider.curvePoints
        totalPoints == Len(allPoints)
        v == t * (totalPoints - 1)
        index == Min(v \div d, totalPoints - 2)
        localT == JsRem(v, d)
    IN  IF Len(slider.curvePoints) = 0
        THEN [ok |-> TRUE, xn |-> slider.x, yn |-> slider.y, q |-> 1]
        ELSE IF index < 0
        THEN [ok |-> FALSE, xn |-> 0, yn |-> 0, q |-> 1]
        ELSE [ok |-> TRUE,
              xn |-> allPoints[index + 1].x * d +
                     (allPoints[index + 2].x - allPoints[index + 1].x) * localT,
              yn |-> allPoints[index + 1].y * d +
                     (allPoints[index + 2].y - allPoints[index + 1].y) * localT,
              q |-> d]

\* Math.atan2(y - 192, x - 256) in quarter turns, for points on the axes
Atan2(x, y) ==
    CASE y = 192 /\ x >= 256 -> 0
      [] x = 256 /\ y > 192 -> 1
      [] y = 192 /\ x < 256 -> 2
      [] x = 256 /\ y < 192 -> -1

\* Math.ceil((endTime - time) / 1000 * 2.5)
RequiredSpins(spinner) ==
    LET num == (spinner.endTime - spinner.time) * 5
    IN  (num + 1999) \div 2000

NewActiveSpinner(i, spinner) ==
    [index |-> i, rotation |-> 0, hasAngle |-> FALSE, lastAngle |-> 0,
     spinsCompleted |-> 0, requiredSpins |-> RequiredSpins(spinner)]

-----------------------------------------------------------------------------
(* GameEngine.update and its steps *)

RECURSIVE activateSpinnersFrom(_, _)
activateSpinnersFrom(s, i) ==
    IF i > Len(s.beatmap.hitObjects) THEN s
    ELSE LET obj == s.beatmap.hitObjects[i] IN
         IF \/ obj.type # "spinner"
            \/ i \in s.processedObjects
            \/ MapHas(s.activeSpinners, i)
            \/ ~(s.currentTime >= obj.time /\ s.currentTime <= obj.endTime)
         THEN activateSpinnersFrom(s, i + 1)
         ELSE activateSpinnersFrom(
                  [s EXCEPT !.activeSpinners = MapSet(@, NewActiveSpinner(i, obj))],
                  i + 1)

activateSpinners(s) == activateSpinnersFrom(s, 1)

\* the timeout test with >= in place of >
TimedOutInclusive(s, i) ==
    LET obj == s.beatmap.hitObjects[i] IN
    CASE obj.type = "circle" ->
             s.currentTime * 100 >= obj.time * 100 + s.hitWindows.good
      [] obj.type = "slider" ->
             /\ s.currentTime * 100 >=
                    (obj.time + obj.duration) * 100 + s.hitWindows.good
             /\ ~MapHas(s.activeSliders, i)
      [] obj.type = "spinner" ->
             /\ s.currentTime >= obj.endTime
             /\ ~MapHas(s.activeSpinners, i)

\* whether the timeout sweep judges the unprocessed object i a miss
TimedOut(s, i) ==
    LET obj == s.beatmap.hitObjects[i] IN
    CASE obj.type = "circle" ->
             s.currentTime * 100 > obj.time * 100 + s.hitWindows.good
      [] obj.type = "slider" ->
             /\ s.currentTime * 100 >
                    (obj.time + obj.duration) * 100 + s.hitWindows.good
             /\ ~MapHas(s.activeSliders, i)
      [] obj.type = "spinner" ->
             /\ s.currentTime > obj.endTime
             /\ ~MapHas(s.activeSpinners, i)

RECURSIVE checkMissedObjectsFrom(_, _)
checkMissedObjectsFrom(s, i) ==
    IF i > Len(s.beatmap.hitObjects) THEN s
    ELSE IF i \notin s.processedObjects /\ TimedOut(s, i)
    THEN checkMissedObjectsFrom(processHit(s, i, "miss"), i + 1)
    ELSE checkMissedObjectsFrom(s, i + 1)

checkMissedObjects(s) == checkMissedObjectsFrom(s, 1)

\* Math.min(1, elapsed / duration)
SliderProgress(slider, now) ==
    IF now - slider.time >= slider.duration THEN [n |-> 1, d |-> 1]
    ELSE Frac(now - slider.time, slider.duration)

\* the slider's result when 'great' takes every tick
SliderResultAllTicks(slider, ticksHit) ==
    IF ticksHit >= slider.tickCount THEN "great" ELSE "good"

SliderResult(slider, ticksHit) ==
    IF ticksHit * 2 >= slider.tickCount THEN "great" ELSE "good"

\* the loop body of updateActiveSliders for the entry of hit object i
updateActiveSlider(s, i) ==
    LET k == MapPos(s.activeSliders, i)
        slider == s.beatmap.hitObjects[i]
        progress == SliderProgress(slider, s.currentTime)
        s1 == [s EXCEPT !.activeSliders[k].progress = progress]
    IN  IF progress.n >= progress.d
        THEN [processHit(s1, i, SliderResult(slider, s1.activeSliders[k].ticksHit))
                 EXCEPT !.activeSliders = MapDelete(@, i)]
        ELSE s1

RECURSIVE updateActiveSlidersOver(_, _)
updateActiveSlidersOver(s, keys) ==
    IF keys = << >> THEN s
    ELSE updateActiveSlidersOver(updateActiveSlider(s, Head(keys)), Tail(keys))

updateActiveSliders(s) ==
    updateActiveSlidersOver(s, [k \in 1..Len(s.activeSliders) |->
                                    s.activeSliders[k].index])

\* the spinner's result when any rotation at all counts as 'great'
SpinnerResultAnySpin(sp) ==
    IF sp.spinsCompleted >= 4 * sp.requiredSpins THEN "perfect"
    ELSE IF sp.spinsCompleted > 0 THEN "great"
    ELSE "miss"

SpinnerResult(sp) ==
    IF sp.spinsCompleted >= 4 * sp.requiredSpins THEN "perfect"
    ELSE IF sp.spinsCompleted * 2 >= 4 * sp.requiredSpins THEN "great"
    ELSE "miss"

\* the loop body of updateActiveSpinners for the entry of hit object i
updateActiveSpinner(s, i) ==
    LET sp == s.activeSpinners[MapPos(s.activeSpinners, i)]
        spinner == s.beatmap.hitObjects[i]
    IN  IF s.currentTime >= spinner.endTime
        THEN [processHit(s, i, SpinnerResult(sp))
                 EXCEPT !.activeSpinners = MapDelete(@, i)]
        ELSE s

RECURSIVE updateActiveSpinnersOver(_, _)
updateActiveSpinnersOver(s, keys) ==
    IF keys = << >> THEN s
    ELSE updateActiveSpinnersOver(updateActiveSpinner(s, Head(keys)), Tail(keys))

updateActiveSpinners(s) ==
    updateActiveSpinnersOver(s, [k \in 1..Len(s.activeSpinners) |->
                                     s.activeSpinners[k].index])

\* onFail / onGameEnd invocation counters, saturating at MaxCalls
Count(n) == Min(MaxCalls, n + 1)

InBreak(s) ==
    \E k \in 1..Len(s.beatmap.breaks) :
        /\ s.currentTime >= s.beatmap.breaks[k].startTime
        /\ s.currentTime <= s.beatmap.breaks[k].endTime

\* hpDrainRate * 0.01 * timeMultiplier, halved under "ez", in units of 1/HpUnit
DrainPerFrame(s) ==
    LET base == s.beatmap.hpDrainRate * (HpUnit \div 100)
        timed == IF "dt" \in s.mods THEN (base * 3) \div 2
                 ELSE IF "ht" \in s.mods THEN (base * 3) \div 4
                 ELSE base
    IN  IF "ez" \in s.mods THEN timed \div 2 ELSE timed

\* the HP drain step of update()
drainHp(s) ==
    IF s.gameState.hp > 0 /\ ~InBreak(s)
    THEN LET hp == s.gameState.hp - DrainPerFrame(s) IN
         IF hp <= 0
         THEN [s EXCEPT !.gameState.hp = 0, !.onFailCalls = Count(@)]
         ELSE [s EXCEPT !.gameState.hp = hp]
    ELSE s

endGame(s) ==
    LET s1 == AudioStop([s EXCEPT !.isRunning = FALSE])
    IN  IF s1.beatmap.loaded
        THEN [s1 EXCEPT !.onGameEndCalls = Count(@)]
        ELSE s1

AllProcessed(s) == Cardinality(s.processedObjects) >= Len(s.beatmap.hitObjects)

LastObjectEndTime(s) ==
    LET n == Len(s.beatmap.hitObjects)
    IN  IF n = 0 THEN 0 ELSE ObjectEnd(s.beatmap.hitObjects[n])

\* the end-of-run checks without the grace margin after the last object
finishFrameNoGrace(s) ==
    IF AllProcessed(s) /\ s.currentTime > LastObjectEndTime(s)
    THEN endGame(s)
    ELSE LET s1 == IF s.currentTime >= AudioGetDuration(s) THEN endGame(s) ELSE s
         IN  [s1 EXCEPT !.cb = Append(@, "onStateUpdate")]

\* the end-of-run checks and the state emission that close update()
finishFrame(s) ==
    IF AllProcessed(s) /\ s.currentTime > LastObjectEndTime(s) + 1000
    THEN endGame(s)
    ELSE LET s1 == IF s.currentTime >= AudioGetDuration(s) THEN endGame(s) ELSE s
         IN  [s1 EXCEPT !.cb = Append(@, "onStateUpdate")]

\* update(), the audio context being at position pos
update(s, pos) ==
    IF ~s.isRunning \/ ~s.beatmap.loaded THEN [s EXCEPT !.cb = << >>]
    ELSE LET s0 == [s EXCEPT !.currentTime = AudioGetCurrentTime(s, pos),
                             !.audioPos = pos, !.cb = << >>]
         IN  finishFrame(drainHp(updateActiveSpinners(updateActiveSliders(
                 checkMissedObjects(activateSpinners(s0))))))

-----------------------------------------------------------------------------
(* GameEngine: input handlers *)

\* the branch taken when the loop does not skip processed objects
ClickBranchJudged(s, i, x, y) ==
    LET obj == s.beatmap.hitObjects[i]
        timeDiff == Abs(s.currentTime - obj.time)
    IN  IF ~(timeDiff * 100 <= s.hitWindows.good) THEN "skip"
        ELSE IF obj.type = "circle"
        THEN (IF isPointInCircle(x, y, At(obj.x, obj.y), s.circleRadius)
              THEN "circle" ELSE "skip")
        ELSE IF obj.type = "slider"
        THEN (IF isPointInCircle(x, y, At(obj.x, obj.y), s.circleRadius)
              THEN "slider" ELSE "skip")
        ELSE (IF s.currentTime >= obj.time /\ s.currentTime <= obj.endTime
              THEN "spinner" ELSE "skip")

\* the branch of handleClick's loop taken for hit object i: "skip" goes on to
\* the next object, anything else ends the loop
ClickBranch(s, i, x, y) ==
    LET obj == s.beatmap.hitObjects[i]
        timeDiff == Abs(s.currentTime - obj.time)
    IN  IF i \in s.processedObjects THEN "skip"
        ELSE IF ~(timeDiff * 100 <= s.hitWindows.good) THEN "skip"
        ELSE IF obj.type = "circle"
        THEN (IF isPointInCircle(x, y, At(obj.x, obj.y), s.circleRadius)
              THEN "circle" ELSE "skip")
        ELSE IF obj.type = "slider"
        THEN (IF isPointInCircle(x, y, At(obj.x, obj.y), s.circleRadius)
              THEN "slider" ELSE "skip")
        ELSE (IF s.currentTime >= obj.time /\ s.currentTime <= obj.endTime
              THEN "spinner" ELSE "skip")

clickCircle(s, i) ==
    processHit(s, i, getHitResult(s, Abs(s.currentTime - s.beatmap.hitObjects[i].time)))

clickSlider(s, i) ==
    LET result == getHitResult(s, Abs(s.currentTime - s.beatmap.hitObjects[i].time))
    IN  IF result # "miss"
        THEN addScore([s EXCEPT !.activeSliders =
                           MapSet(@, [index |-> i, progress |-> [n |-> 0, d |-> 1],
                                      ticksHit |-> 1, isHeld |-> TRUE])],
                      SCORE_VALUES(result), 3, TRUE)
        ELSE s

clickSpinner(s, i, x, y) ==
    LET m == IF MapHas(s.activeSpinners, i) THEN s.activeSpinners
             ELSE MapSet(s.activeSpinners,
                         NewActiveSpinner(i, s.beatmap.hitObjects[i]))
        k == MapPos(m, i)
    IN  [s EXCEPT !.activeSpinners =
             [m EXCEPT ![k].hasAngle = TRUE, ![k].lastAngle = Atan2(x, y)]]

RECURSIVE handleClickFrom(_, _, _, _)
handleClickFrom(s, i, x, y) ==
    IF i > Len(s.beatmap.hitObjects) THEN s
    ELSE LET branch == ClickBranch(s, i, x, y) IN
         CASE branch = "skip" -> handleClickFrom(s, i + 1, x, y)
           [] branch = "circle" -> clickCircle(s, i)
           [] branch = "slider" -> clickSlider(s, i)
           [] branch = "spinner" -> clickSpinner(s, i, x, y)

\* replayFrames.push(frame).  The engine only ever appends to the log and
\* hands it to onGameEnd; the model keeps its length and its last frame.
Push(log, frame) == [len |-> log.len + 1, last |-> frame]

recordFrame(s, x, y) ==
    [s EXCEPT !.replayFrames =
         Push(@, [time |-> s.currentTime, x |-> x, y |-> y, keys |-> 1])]

handleClick(s, x, y) ==
    IF ~s.isRunning \/ ~s.beatmap.loaded THEN [s EXCEPT !.cb = << >>]
    ELSE handleClickFrom(recordFrame([s EXCEPT !.cb = << >>], x, y), 1, x, y)

\* 2.5 * circleRadius
CaptureRadius(s) == Frac(5 * s.circleRadius.n, 2 * s.circleRadius.d)

\* slider tracking for the k-th active slider; threw = TRUE when
\* getSliderPosition throws, which ends handleMouseMove there
RECURSIVE trackSlidersFrom(_, _, _, _)
trackSlidersFrom(s, k, x, y) ==
    IF k > Len(s.activeSliders) THEN [s |-> s, threw |-> FALSE]
    ELSE LET a == s.activeSliders[k]
             pos == getSliderPosition(s.beatmap.hitObjects[a.index], a.progress)
         IN  IF ~a.isHeld THEN trackSlidersFrom(s, k + 1, x, y)
             ELSE IF ~pos.ok THEN [s |-> s, threw |-> TRUE]
             ELSE IF isPointInCircle(x, y, pos, CaptureRadius(s))
             THEN trackSlidersFrom(
                      [s EXCEPT !.activeSliders[k].ticksHit = @ + 1], k + 1, x, y)
             ELSE trackSlidersFrom(
                      [s EXCEPT !.activeSliders[k].isHeld = FALSE], k + 1, x, y)

\* the angle difference brought into [-pi, pi], in quarter turns
NormalizeDelta(delta) ==
    LET d1 == IF delta > 2 THEN delta - 4 ELSE delta
    IN  IF d1 < -2 THEN d1 + 4 ELSE d1

\* spinner rotation for the k-th active spinner
spinSpinner(s, k, x, y) ==
    LET a == s.activeSpinners[k]
        angle == Atan2(x, y)
        rotation == a.rotation + Abs(NormalizeDelta(angle - a.lastAngle))
        spinsGained == (rotation \div 4) - (a.spinsCompleted \div 4)
        s1 == [s EXCEPT !.activeSpinners[k].rotation = rotation,
                        !.activeSpinners[k].lastAngle = angle]
    IN  IF ~a.hasAngle
        THEN [s EXCEPT !.activeSpinners[k].hasAngle = TRUE,
                       !.activeSpinners[k].lastAngle = angle]
        ELSE IF rotation > a.spinsCompleted
        THEN LET s2 == [s1 EXCEPT !.activeSpinners[k].spinsCompleted = rotation]
             IN  IF spinsGained > 0 THEN addScore(s2, 100 * spinsGained, 1, FALSE)
                 ELSE s2
        ELSE s1

RECURSIVE spinSpinnersFrom(_, _, _, _)
spinSpinnersFrom(s, k, x, y) ==
    IF k > Len(s.activeSpinners) THEN s
    ELSE spinSpinnersFrom(spinSpinner(s, k, x, y), k + 1, x, y)

handleMouseMove(s, x, y) ==
    IF ~s.isRunning THEN [s EXCEPT !.cb = << >>]
    ELSE LET r == trackSlidersFrom([s EXCEPT !.cb = << >>], 1, x, y)
         IN  IF r.threw THEN [r.s EXCEPT !.cb = << "TypeError" >>]
             ELSE spinSpinnersFrom(r.s, 1, x, y)

handleMouseUp(s) ==
    [s EXCEPT !.cb = << >>,
              !.activeSliders = [k \in 1..Len(@) |-> [@[k] EXCEPT !.isHeld = FALSE]]]

-----------------------------------------------------------------------------
(* GameEngine: run control *)

reset(s) ==
    [s EXCEPT !.gameState = createInitialState,
              !.judgements = << >>,
              !.activeSliders = << >>,
              !.activeSpinners = << >>,
              !.processedObjects = {},
              !.currentTime = 0,
              !.replayFrames = NoFrames,
              !.onJudgementCalls = 0,
              !.onFailCalls = 0,
              !.onGameEndCalls = 0]

loadBeatmap(s, bm) ==
    calculateDifficultyValues(reset([s EXCEPT !.beatmap = bm, !.cb = << >>]))

\* setMods; the playback rate it sets only changes how fast the clock runs
setMods(s, m) == calculateDifficultyValues([s EXCEPT !.mods = m, !.cb = << >>])

start(s) ==
    IF ~s.beatmap.loaded THEN [s EXCEPT !.cb = << >>]
    ELSE AudioPlay([reset(s) EXCEPT !.isRunning = TRUE, !.cb = << >>], 0)

\* stop() that ends the run the way the last frame does, onGameEnd included
stopAsEndGame(s) == [endGame(s) EXCEPT !.cb = << >>]

stop(s) == AudioStop([s EXCEPT !.isRunning = FALSE, !.cb = << >>])

pause(s, pos) == AudioPause([s EXCEPT !.isRunning = FALSE, !.cb = << >>], pos)

\* resume() that resets the run the way start() does
resumeFromStart(s) ==
    AudioResume([reset(s) EXCEPT !.isRunning = TRUE, !.cb = << >>])

resume(s) == AudioResume([s EXCEPT !.isRunning = TRUE, !.cb = << >>])

-----------------------------------------------------------------------------
(* The state machine *)

\* the count a countdown interval starts from
CountdownFrom == 3

\* GameCanvas before it is mounted: its initial state, no interval set.
\* countdown is the count of the initialise-game effect's interval (0 = not
\* set or cleared), restarts the counts of the intervals set by restart();
\* live tells whether the interval's component is still mounted.  overlay is
\* the pause overlay, which stays in the page while its exit animation runs.
NoCanvas ==
    [mounted |-> FALSE, leaving |-> FALSE, isPaused |-> FALSE,
     showCountdown |-> TRUE, overlay |-> "hidden", countdown |-> 0,
     restarts |-> << >>]

Init ==
    /\ beatmap = NoBeatmap
    /\ mods = {}
    /\ hitWindows = HIT_WINDOWS
    /\ circleRadius = [n |-> 54, d |-> 1]
    /\ gameState = createInitialState
    /\ judgements = << >>
    /\ activeSliders = << >>
    /\ activeSpinners = << >>
    /\ processedObjects = {}
    /\ currentTime = 0
    /\ isRunning = FALSE
    /\ replayFrames = NoFrames
    /\ audioBuffer \in AudioDurations
    /\ audioPlaying = FALSE
    /\ pauseTime = 0
    /\ audioPos = 0
    /\ cb = << >>
    /\ onJudgementCalls = 0
    /\ onFailCalls = 0
    /\ onGameEndCalls = 0
    /\ canvas = NoCanvas

\* The game canvas loads the chart and sets the modifiers when it mounts, the
\* engine being stopped, and starts the run afterwards.
Fresh ==
    /\ ~isRunning
    /\ gameState = createInitialState
    /\ judgements = << >>
    /\ activeSliders = << >>
    /\ activeSpinners = << >>
    /\ processedObjects = {}
    /\ replayFrames = NoFrames

LoadBeatmap(charts) ==
    /\ ~isRunning
    /\ \E bm \in charts : Commit(loadBeatmap(Cur, bm))

SetMods(modSets) ==
    /\ Fresh
    /\ \E m \in modSets : Commit(setMods(Cur, m))

Start == Commit(start(Cur))

Stop == Commit(stop(Cur))

Pause == \E pos \in ClockReads(Cur) : Commit(pause(Cur, pos))

Resume == Commit(resume(Cur))

Update == \E pos \in ClockReads(Cur) : Commit(update(Cur, pos))

\* MaxClicks, or a click for every hit object of the chart
ClickCap == Max(MaxClicks, Len(beatmap.hitObjects))

HandleClick ==
    /\ replayFrames.len < ClickCap
    /\ \E p \in Pointers : Commit(handleClick(Cur, p[1], p[2]))

HandleMouseMove ==
    /\ \A k \in 1..Len(activeSliders) : activeSliders[k].ticksHit < MaxTicks
    /\ \A k \in 1..Len(activeSpinners) : activeSpinners[k].rotation < MaxRotation
    /\ \E p \in Pointers : Commit(handleMouseMove(Cur, p[1], p[2]))

HandleMouseUp == Commit(handleMouseUp(Cur))

\* the source node's onended handler: playback reached the end of the buffer
OnEnded ==
    /\ audioPlaying
    /\ audioPlaying' = FALSE
    /\ audioPos' = 0
    /\ UNCHANGED << beatmap, mods, hitWindows, circleRadius, gameState,
                    judgements, activeSliders, activeSpinners, processedObjects,
                    currentTime, isRunning, replayFrames, audioBuffer, pauseTime,
                    cb, onJudgementCalls, onFailCalls, onGameEndCalls,
                    canvas >>

\* the calls made on a loaded engine, and the end of playback
Play ==
    \/ Start
    \/ Stop
    \/ Pause
    \/ Resume
    \/ Update
    \/ HandleClick
    \/ HandleMouseMove
    \/ HandleMouseUp
    \/ OnEnded

Next ==
    \/ LoadBeatmap(Beatmaps)
    \/ SetMods(ModSets)
    \/ Play

Spec == Init /\ [][Next]_vars

NextObjects ==
    \/ LoadBeatmap(ObjectBeatmaps)
    \/ SetMods(ObjectModSets)
    \/ Play

SpecObjects == Init /\ [][NextObjects]_vars

NextWindows ==
    \/ LoadBeatmap(WindowBeatmaps)
    \/ SetMods(WindowModSets)
    \/ Play

SpecWindows == Init /\ [][NextWindows]_vars

NextDifficulty ==
    \/ LoadBeatmap(DifficultyBeatmaps)
    \/ SetMods(DifficultyModSets)
    \/ Play

SpecDifficulty == Init /\ [][NextDifficulty]_vars

NextThree ==
    \/ LoadBeatmap(ThreeBeatmaps)
    \/ SetMods(ThreeModSets)
    \/ Play

SpecThree == Init /\ [][NextThree]_vars

NextEarly ==
    \/ LoadBeatmap(EarlyBeatmaps)
    \/ SetMods(EarlyModSets)
    \/ Play

SpecEarly == Init /\ [][NextEarly]_vars

-----------------------------------------------------------------------------
(* GameCanvas: countdowns, pause overlay, teardown *)

\* the pause overlay after a render: shown under isPaused && !showCountdown,
\* otherwise exiting if it was in the page
Overlay(c) ==
    IF c.isPaused /\ ~c.showCountdown THEN "shown"
    ELSE IF c.overlay \in {"shown", "exiting"} THEN "exiting"
    ELSE "hidden"

Render(c) == [c EXCEPT !.overlay = Overlay(c)]

\* whether the buttons of the pause overlay can be clicked
OverlayInPage ==
    /\ canvas.mounted /\ ~canvas.leaving
    /\ canvas.overlay \in {"shown", "exiting"}

\* the initialise-game effect of a canvas that is being mounted
Mount ==
    /\ ~canvas.mounted
    /\ \E bm \in CanvasBeatmaps, m \in CanvasModSets :
           Assign(setMods(loadBeatmap(Cur, bm), m))
    /\ canvas' = [NoCanvas EXCEPT !.mounted = TRUE,
                                  !.countdown = CountdownFrom,
                                  !.restarts = canvas.restarts]

\* The intervals tick every 1000 ms; the exit animation of the pause overlay
\* is taken to be over before an interval ticks next.
TickDue == canvas.overlay # "exiting"

\* a tick of the initialise-game effect's interval
CountdownTick ==
    /\ canvas.mounted
    /\ canvas.countdown > 0
    /\ TickDue
    /\ IF canvas.countdown > 1
       THEN /\ canvas' = [canvas EXCEPT !.countdown = @ - 1]
            /\ UNCHANGED engineVars
       ELSE /\ Assign(start(Cur))
            /\ canvas' = Render([canvas EXCEPT !.countdown = 0,
                                               !.showCountdown = FALSE])

\* a sequence without its k-th element
Without(seq, k) ==
    [j \in 1..(Len(seq) - 1) |-> IF j < k THEN seq[j] ELSE seq[j + 1]]

\* a tick of the k-th interval set by restart(); nothing clears it but its
\* own last tick
RestartTick(k) ==
    /\ k \in 1..Len(canvas.restarts)
    /\ TickDue
    /\ IF canvas.restarts[k].count > 1
       THEN /\ canvas' = [canvas EXCEPT !.restarts[k].count = @ - 1]
            /\ UNCHANGED engineVars
       ELSE /\ Assign(start(Cur))
            /\ LET c == [canvas EXCEPT !.restarts = Without(@, k)]
               IN  canvas' = IF canvas.restarts[k].live
                             THEN Render([c EXCEPT !.showCountdown = FALSE])
                             ELSE c

\* togglePause, from the pause button or the overlay's Resume button, both
\* of which the countdown overlay covers
TogglePause ==
    /\ canvas.mounted /\ ~canvas.leaving
    /\ ~canvas.showCountdown
    /\ IF canvas.isPaused
       THEN Assign(resume(Cur))
       ELSE \E pos \in ClockReads(Cur) : Assign(pause(Cur, pos))
    /\ canvas' = Render([canvas EXCEPT !.isPaused = ~@])

\* restart, from the overlay's Restart button
Restart ==
    /\ OverlayInPage
    /\ Len(canvas.restarts) < MaxCountdowns
    /\ Assign(stop(Cur))
    /\ canvas' = Render([canvas EXCEPT
                             !.showCountdown = TRUE,
                             !.isPaused = FALSE,
                             !.restarts = Append(@, [count |-> CountdownFrom,
                                                     live |-> TRUE])])

\* onBack, from the overlay's Quit button: the page leaves the playing screen
Back ==
    /\ OverlayInPage
    /\ canvas' = [canvas EXCEPT !.leaving = TRUE]
    /\ UNCHANGED engineVars

\* the cleanup of the initialise-game effect when the canvas is unmounted
Unmount ==
    /\ canvas.mounted /\ canvas.leaving
    /\ Assign(stop(Cur))
    /\ canvas' = [NoCanvas EXCEPT
                      !.restarts = [k \in 1..Len(canvas.restarts) |->
                                       [canvas.restarts[k] EXCEPT !.live = FALSE]]]

\* the pause overlay's exit animation has finished
OverlayExited ==
    /\ canvas.overlay = "exiting"
    /\ canvas' = [canvas EXCEPT !.overlay = "hidden"]
    /\ UNCHANGED engineVars

\* a frame of the game loop; onFail opens the pause overlay, onGameEnd makes
\* the page leave the playing screen
GameLoop ==
    /\ canvas.mounted
    /\ ~canvas.isPaused /\ ~canvas.showCountdown
    /\ \E pos \in ClockReads(Cur) :
           LET s == update(Cur, pos) IN
           /\ Assign(s)
           /\ canvas' = Render([canvas EXCEPT
                  !.isPaused = @ \/ s.onFailCalls > onFailCalls,
                  !.leaving = @ \/ s.onGameEndCalls > onGameEndCalls])

\* the canvas' pointer listeners
CanvasInput ==
    /\ canvas.mounted
    /\ \/ /\ ~canvas.isPaused /\ ~canvas.showCountdown
          /\ HandleClick \/ HandleMouseMove
       \/ HandleMouseUp

NextCanvas ==
    \/ Mount
    \/ CountdownTick
    \/ \E k \in 1..MaxCountdowns : RestartTick(k)
    \/ TogglePause
    \/ Restart
    \/ Back
    \/ Unmount
    \/ OverlayExited
    \/ GameLoop
    \/ CanvasInput
    \/ OnEnded

SpecCanvas == Init /\ [][NextCanvas]_vars

-----------------------------------------------------------------------------
(* A run that is left alone *)

\* the canvas starts a run on the engine it has just set up
StartRun == Fresh /\ Start

\* a run that nothing stops or pauses: frames keep coming, and the audio
\* plays until it is exhausted
NextLive ==
    \/ LoadBeatmap(WindowBeatmaps)
    \/ SetMods(WindowModSets)
    \/ StartRun
    \/ Update
    \/ HandleClick
    \/ HandleMouseMove
    \/ HandleMouseUp
    \/ OnEnded

\* whether a call of update() would change the state: ENABLED <<Update>>_vars
UpdateChanges == \E pos \in ClockReads(Cur) : update(Cur, pos) # Cur

\* The animation loop calls update() in every frame, and playback that is not
\* stopped reaches the end of the buffer: weak fairness of Update, written
\* out with UpdateChanges for its enabling condition, and of OnEnded.
SpecLive ==
    /\ Init
    /\ [][NextLive]_vars
    /\ ([]<>(~UpdateChanges) \/ []<><<Update>>_vars)
    /\ WF_vars(OnEnded)

-----------------------------------------------------------------------------
(* Properties *)

\* the entries of a judgement log for hit object i
JudgementsOf(js, i) == { k \in 1..Len(js) : js[k].hitObject = i }

\* a step of update() that gets past its first line; the position it read
\* from the clock is the time it stored
Frame ==
    /\ isRunning /\ beatmap.loaded
    /\ replayFrames' = replayFrames
    /\ \E pos \in ClockReads(Cur) :
           /\ pos = IF audioPlaying THEN currentTime' ELSE audioPos
           /\ Commit(update(Cur, pos))

\* C1: within a run no hit object is judged twice: the judgement log holds at
\* most one entry per hit-object index, and onJudgement was called at most
\* once per hit object.
C1_JudgedAtMostOnce ==
    /\ \A i \in 1..Len(beatmap.hitObjects) :
           Cardinality(JudgementsOf(judgements, i)) <= 1
    /\ \A k \in 1..Len(judgements) :
           judgements[k].hitObject \in 1..Len(beatmap.hitObjects)
    /\ onJudgementCalls <= Len(beatmap.hitObjects)

\* C1 witness: the circle was judged by a click and the slider by its
\* completion, and the run went on to a later frame and a later click.
C1_Witness ==
    /\ beatmap = SliderChart
    /\ Len(judgements) = 2
    /\ judgements[1].result = "good"
    /\ judgements[2].result = "great"
    /\ currentTime > judgements[2].time
    /\ replayFrames.len = MaxClicks

\* C2: in a frame at time t, a circle that is still unjudged is judged a miss
\* exactly when t > time + good, and an unjudged slider that was never
\* engaged exactly when t > time + duration + good; the frame adds one entry
\* to the log for it, and no frame adds an entry for an object already judged.
C2_TimeoutMiss ==
    [][Frame =>
        \A i \in 1..Len(beatmap.hitObjects) :
            LET obj == beatmap.hitObjects[i]
                t == currentTime'
                before == JudgementsOf(judgements, i)
                after == JudgementsOf(judgements', i)
                due == IF obj.type = "circle"
                       THEN t * 100 > obj.time * 100 + hitWindows.good
                       ELSE t * 100 > (obj.time + obj.duration) * 100
                                          + hitWindows.good
            IN  /\ i \in processedObjects => after = before
                /\ /\ i \notin processedObjects
                   /\ \/ obj.type = "circle"
                      \/ obj.type = "slider" /\ ~MapHas(activeSliders, i)
                   => IF due
                      THEN /\ i \in processedObjects'
                           /\ Cardinality(after) = 1
                           /\ \A k \in after : judgements'[k].result = "miss"
                      ELSE /\ i \notin processedObjects'
                           /\ after = {}
    ]_vars

\* C2 witness: the circle timed out in the frame at 1500 and the slider, never
\* engaged, in the frame at 2051, and a later frame followed.
C2_Witness ==
    /\ beatmap = SliderChart
    /\ Len(judgements) = 2
    /\ judgements[1] = [time |-> 1500, result |-> "miss", hitObject |-> 1,
                        points |-> 0]
    /\ judgements[2] = [time |-> 2051, result |-> "miss", hitObject |-> 2,
                        points |-> 0]
    /\ currentTime = 2901
    /\ replayFrames.len = 0

\* a step that begins a new run: start() or loadBeatmap()
NewRun ==
    \/ Start
    \/ LoadBeatmap(Beatmaps \cup ObjectBeatmaps \cup WindowBeatmaps
                      \cup DifficultyBeatmaps \cup ThreeBeatmaps
                      \cup EarlyBeatmaps)

\* C3: hp stays within [0, 100] in every state.
C3_HpInRange == gameState.hp >= 0 /\ gameState.hp <= HpMax

\* C3 witness: a perfect hit at full hp in the frame at 1000, which the break
\* keeps from draining: hp + 2 was clamped to 100.
C3_Witness ==
    /\ beatmap = DrainChart
    /\ gameState.perfectCount = 1
    /\ Len(judgements) = 1
    /\ judgements[1].time = 1000
    /\ gameState.hp = HpMax

\* C4: onFail is invoked at most once per run.
C4_FailAtMostOnce == onFailCalls <= 1

\* C5: whenever hp is 0, having got there by the drain or by the penalty of a
\* miss, onFail has been invoked in the run.
C5_FailRaisedAtZero == gameState.hp = 0 => onFailCalls >= 1

\* C6: onGameEnd is invoked at most once per run.
C6_GameEndAtMostOnce == onGameEndCalls <= 1

\* C7: every frame invokes onStateUpdate exactly once.
C7_StateUpdateEveryFrame == [][Frame => cb' = << "onStateUpdate" >>]_vars

\* the longest run of consecutive non-miss entries among the first n entries
\* of a judgement log, and the run that ends at entry n
RECURSIVE ComboAt(_, _)
ComboAt(js, n) ==
    IF n = 0 \/ js[n].result = "miss" THEN 0 ELSE ComboAt(js, n - 1) + 1

RECURSIVE MaxComboAt(_, _)
MaxComboAt(js, n) ==
    IF n = 0 THEN 0 ELSE Max(MaxComboAt(js, n - 1), ComboAt(js, n))

\* C8: maxCombo is the largest value combo has taken in the run (combo being
\* the run of non-miss judgements that ends the log), it does not exceed the
\* number of hit objects, and no step within a run decreases it.
C8_MaxCombo ==
    /\ [](/\ gameState.combo = ComboAt(judgements, Len(judgements))
          /\ gameState.maxCombo = MaxComboAt(judgements, Len(judgements))
          /\ gameState.maxCombo <= Len(beatmap.hitObjects))
    /\ [][gameState'.maxCombo >= gameState.maxCombo \/ NewRun]_vars

\* C8 witness: a hit followed by a miss: the combo is back at 0 and maxCombo
\* keeps the 1.
C8_Witness ==
    /\ Len(judgements) = 2
    /\ judgements[1].result # "miss"
    /\ judgements[2].result = "miss"
    /\ gameState.combo = 0
    /\ gameState.maxCombo = 1

\* C9: accuracy is (300 perfect + 100 great + 50 good) / (300 judged) * 100 of
\* the current counters, and 100 when nothing is judged; one perfect gives
\* 100, one perfect and one miss give 50.
C9_Accuracy ==
    LET gs == gameState
        total == gs.perfectCount + gs.greatCount + gs.goodCount + gs.missCount
        weighted == gs.perfectCount * 300 + gs.greatCount * 100 + gs.goodCount * 50
    IN  /\ gs.accuracy.d > 0
        /\ total = 0 => gs.accuracy.n = 100 * gs.accuracy.d
        /\ total > 0 => gs.accuracy.n * total * 300 = weighted * 100 * gs.accuracy.d
        /\ gs.perfectCount = 1 /\ total = 1 => gs.accuracy = [n |-> 100, d |-> 1]
        /\ gs.perfectCount = 1 /\ gs.missCount = 1 /\ total = 2
               => gs.accuracy = [n |-> 50, d |-> 1]

\* C9 witness: one perfect and one miss, accuracy 50.
C9_Witness ==
    /\ gameState.perfectCount = 1
    /\ gameState.missCount = 1
    /\ gameState.accuracy = [n |-> 50, d |-> 1]

\* C10: the four outcome counters add up to the size of the processed set, to
\* the length of the judgement log and to the number of onJudgement calls.
C10_CountsAgree ==
    LET gs == gameState
        total == gs.perfectCount + gs.greatCount + gs.goodCount + gs.missCount
    IN  /\ total = Cardinality(processedObjects)
        /\ total = Len(judgements)
        /\ total = onJudgementCalls

\* C10 witness: a timed-out circle and then a clicked one, and the run ended.
C10_Witness ==
    /\ Len(judgements) = 2
    /\ gameState.missCount = 1
    /\ gameState.perfectCount = 1
    /\ judgements[1].result = "miss"
    /\ onJudgementCalls = 2
    /\ onGameEndCalls = 1

\* a step of handleClick() that gets past its first line: it records a frame
ClickStep ==
    /\ isRunning /\ beatmap.loaded
    /\ replayFrames'.len = replayFrames.len + 1

\* whether the click recorded by this step landed on the unjudged hit object
\* i within its good window (a spinner has no position, only its time span)
ClickOn(i) ==
    LET obj == beatmap.hitObjects[i]
        x == replayFrames'.last.x
        y == replayFrames'.last.y
        dx == x - obj.x
        dy == y - obj.y
    IN  /\ i \notin processedObjects
        /\ Abs(currentTime - obj.time) * 100 <= hitWindows.good
        /\ IF obj.type = "spinner"
           THEN currentTime >= obj.time /\ currentTime <= obj.endTime
           ELSE (dx * dx + dy * dy) * circleRadius.d * circleRadius.d
                    <= circleRadius.n * circleRadius.n

\* the tightest window that contains the time delta d (in ms)
TightestWindow(d) ==
    IF d * 100 <= hitWindows.perfect THEN "perfect"
    ELSE IF d * 100 <= hitWindows.great THEN "great"
    ELSE "good"

\* whether this step judged hit object i, and nothing else, with result r
JudgedAs(i, r) ==
    /\ processedObjects' = processedObjects \cup {i}
    /\ Len(judgements') = Len(judgements) + 1
    /\ judgements'[Len(judgements')].hitObject = i
    /\ judgements'[Len(judgements')].result = r

\* C11 as stated: a click that lands on an unjudged circle within its good
\* window judges that circle by the tightest window containing |t - time|.
C11_ClickJudgesCircle ==
    [][ClickStep =>
        \A i \in 1..Len(beatmap.hitObjects) :
            beatmap.hitObjects[i].type = "circle" /\ ClickOn(i)
                => JudgedAs(i, TightestWindow(
                                   Abs(currentTime - beatmap.hitObjects[i].time)))
    ]_vars

\* C11 amended: handleClick goes through the hit objects in chart order and
\* stops at the first one the click lands on, so the circle is judged, by the
\* tightest window, when the click lands on no unjudged object before it; a
\* click judges at most one object and never as a miss.  At OD 5 a delta of
\* 40 ms is a perfect and one of 70 ms a great.
C11_ClickJudgesFirstCircle ==
    [][ClickStep =>
        /\ \A i \in 1..Len(beatmap.hitObjects) :
               LET obj == beatmap.hitObjects[i]
                   d == Abs(currentTime - obj.time)
               IN  /\ obj.type = "circle"
                   /\ ClickOn(i)
                   /\ \A j \in 1..(i - 1) : ~ClickOn(j)
                   => /\ JudgedAs(i, TightestWindow(d))
                      /\ hitWindows = HIT_WINDOWS /\ d = 40
                             => JudgedAs(i, "perfect")
                      /\ hitWindows = HIT_WINDOWS /\ d = 70
                             => JudgedAs(i, "great")
        /\ Len(judgements') <= Len(judgements) + 1
        /\ Len(judgements') = Len(judgements) + 1
               => judgements'[Len(judgements')].result # "miss"
        /\ (\A i \in 1..Len(beatmap.hitObjects) : ~ClickOn(i))
               => judgements' = judgements
    ]_vars

\* C11 witness: at 1100 ms, the time of the second stacked circle, a click on
\* the stack judged the first circle 'great' and left the second unjudged;
\* the other click of the run had landed on nothing.
C11_Witness ==
    /\ beatmap = StackChart
    /\ Len(judgements) = 1
    /\ judgements[1] = [time |-> 1100, result |-> "great", hitObject |-> 1,
                        points |-> 100]
    /\ processedObjects = {1}
    /\ replayFrames.len = 2

\* C12: with OD' the overall difficulty after the modifiers (halved by ez,
\* then times 1.4 and capped at 10 by hr), the hit windows are 80 - 6 OD',
\* 140 - 8 OD' and 200 - 10 OD', and 0 < perfect < great < good; OD 5 without
\* these modifiers gives (50, 100, 150), OD 8 gives (32, 76, 120).
C12_HitWindows ==
    beatmap.loaded =>
        LET od == beatmap.overallDifficulty * 100
            eased == IF "ez" \in mods THEN od \div 2 ELSE od
            od1 == IF "hr" \in mods THEN Min(MaxOD * 100, (eased * 14) \div 10)
                   ELSE eased
            plain == "ez" \notin mods /\ "hr" \notin mods
        IN  /\ od1 <= MaxOD * 100
            /\ hitWindows.perfect = 8000 - 6 * od1
            /\ hitWindows.great = 14000 - 8 * od1
            /\ hitWindows.good = 20000 - 10 * od1
            /\ 0 < hitWindows.perfect
            /\ hitWindows.perfect < hitWindows.great
            /\ hitWindows.great < hitWindows.good
            /\ plain /\ beatmap.overallDifficulty = 5
                   => hitWindows = [perfect |-> 5000, great |-> 10000,
                                    good |-> 15000]
            /\ plain /\ beatmap.overallDifficulty = 8
                   => hitWindows = [perfect |-> 3200, great |-> 7600,
                                    good |-> 12000]

\* C12 witness: OD 8 under hr: 8 * 1.4 = 11.2 was capped at 10, which gives
\* the windows (20, 60, 100).
C12_Witness ==
    /\ beatmap.loaded
    /\ beatmap.overallDifficulty = 8
    /\ mods = {"hr"}
    /\ hitWindows = [perfect |-> 2000, great |-> 6000, good |-> 10000]

\* the product of the active modifiers' score factors, in hundredths:
\* hr 1.06, dt 1.12, ht 0.3, ez 0.5, hd 1.06, fl 1.12
RECURSIVE FactorProduct(_)
FactorProduct(ms) ==
    IF ms = {} THEN [n |-> 1, d |-> 1]
    ELSE LET m == CHOOSE x \in ms : TRUE
             f == CASE m = "hr" -> 106 [] m = "dt" -> 112 [] m = "ht" -> 30
                    [] m = "ez" -> 50 [] m = "hd" -> 106 [] m = "fl" -> 112
             rest == FactorProduct(ms \ {m})
         IN  [n |-> rest.n * f, d |-> rest.d * 100]

\* floor(base(r) * max(1, combo) * modMultiplier) for entry k of the log js,
\* combo being the run of non-miss entries that ends at k
PointsOf(js, k) ==
    LET f == FactorProduct(mods)
    IN  (SCORE_VALUES(js[k].result) * Max(1, ComboAt(js, k)) * f.n) \div f.d

RECURSIVE PointsFrom(_, _)
PointsFrom(js, k) ==
    IF k > Len(js) THEN 0 ELSE PointsOf(js, k) + PointsFrom(js, k + 1)

\* C13: a step that judges adds to the score, for each judgement it makes,
\* floor(base * max(1, combo) * modMultiplier) with the combo as it is after
\* that judgement; a miss adds 0; no step within a run decreases the score.
C13_ScorePerJudgement ==
    [][(/\ gameState'.score >= gameState.score
        /\ Len(judgements') > Len(judgements)
               => /\ gameState'.score - gameState.score
                         = PointsFrom(judgements', Len(judgements) + 1)
                  /\ \A k \in (Len(judgements) + 1)..Len(judgements') :
                         judgements'[k].result = "miss"
                             => PointsOf(judgements', k) = 0)
       \/ NewRun
    ]_vars

\* C13 witness: two perfects under ez and dt (factor 0.56):
\* floor(300 * 1 * 0.56) + floor(300 * 2 * 0.56) = 168 + 336.
C13_Witness ==
    /\ mods = {"ez", "dt"}
    /\ gameState.perfectCount = 2
    /\ gameState.combo = 2
    /\ gameState.score = 504

\* all three circles of the three-circle chart were clicked at their own time
AllHitOnTime ==
    /\ beatmap \in ThreeBeatmaps
    /\ mods = {}
    /\ Len(judgements) = 3
    /\ \A k \in 1..3 :
           judgements[k].time = beatmap.hitObjects[judgements[k].hitObject].time

\* C14: three circles at 1000, 1500, 2000 ms, OD 5, no modifiers, each
\* clicked on its position at delta 0: 3 perfects, combo and maxCombo 3,
\* accuracy 100, a positive score and no miss.
C14_AllPerfect ==
    AllHitOnTime =>
        /\ gameState.perfectCount = 3
        /\ gameState.combo = 3
        /\ gameState.maxCombo = 3
        /\ gameState.accuracy = [n |-> 100, d |-> 1]
        /\ gameState.score > 0
        /\ gameState.missCount = 0

\* C14 witness: the three clicks were made, the score is 300 + 600 + 900 and
\* the run has ended.
C14_Witness ==
    /\ AllHitOnTime
    /\ replayFrames.len = 3
    /\ gameState.score = 1800
    /\ onGameEndCalls = 1

\* all three circles of the three-circle chart were judged a miss, which for
\* a circle only the timeout does
AllTimedOut ==
    /\ beatmap \in ThreeBeatmaps
    /\ mods = {}
    /\ Len(judgements) = 3
    /\ \A k \in 1..3 : judgements[k].result = "miss"

C16_StopIdempotent == stop(stop(Cur)) = stop(Cur)

\* C16 witness: a run stopped midway, with a judgement made and a slider
\* engaged, on which a further stop() changes nothing.
C16_Witness ==
    /\ beatmap.loaded
    /\ ~isRunning
    /\ ~audioPlaying
    /\ stop(Cur) = Cur
    /\ currentTime > 0
    /\ Len(judgements) > 0
    /\ Len(activeSliders) > 0
    /\ onGameEndCalls = 0

\* C17: immediately after stop() returns, the active-slider map and the
\* active-spinner map are both empty, whatever was engaged before the call.
C17_StopClearsActive ==
    /\ stop(Cur).activeSliders = << >>
    /\ stop(Cur).activeSpinners = << >>

\* the parts of the engine that a frame works on
Processing(s) ==
    << s.gameState, s.processedObjects, s.activeSliders, s.activeSpinners >>

\* the observer calls made so far
Observed(s) == << s.onJudgementCalls, s.onFailCalls, s.onGameEndCalls >>

\* update() on s, the context being at any position it can be read at, leaves
\* what s0 had and invokes no observer
Silent(s0, s) ==
    \A pos \in ClockReads(s) :
        LET u == update(s, pos)
        IN  /\ Processing(u) = Processing(s0)
            /\ Observed(u) = Observed(s0)
            /\ u.cb = << >>

\* C18: after stop() has ended a run, an update() changes nothing and fires no
\* callback, whether it comes directly after stop(), after pause(), after
\* resume() or after an input call.
C18_StopSilences ==
    (isRunning /\ beatmap.loaded) =>
        LET s0 == stop(Cur)
        IN  /\ Silent(s0, s0)
            /\ \A pos \in ClockReads(s0) : Silent(s0, pause(s0, pos))
            /\ \A p \in Pointers :
                   /\ Silent(s0, handleClick(s0, p[1], p[2]))
                   /\ Silent(s0, handleMouseMove(s0, p[1], p[2]))
            /\ Silent(s0, handleMouseUp(s0))
            /\ Silent(s0, resume(s0))

\* the state that pause() followed by resume() keeps
Kept(s) ==
    << s.gameState, s.processedObjects, s.activeSliders, s.activeSpinners,
       s.judgements, s.replayFrames >>

\* C19: pause() followed by resume() preserves GameState, processed set,
\* active maps, judgement log and replay frames, and every update() between
\* the two changes nothing and fires no callback.
C19_PauseResumePreserves ==
    (isRunning /\ beatmap.loaded) =>
        \A pos \in ClockReads(Cur) :
            LET p == pause(Cur, pos)
            IN  /\ Kept(p) = Kept(Cur)
                /\ Kept(resume(p)) = Kept(Cur)
                /\ \A q \in ClockReads(p) :
                       LET u == update(p, q)
                       IN  /\ Kept(u) = Kept(Cur)
                           /\ Observed(u) = Observed(Cur)
                           /\ u.currentTime = p.currentTime
                           /\ u.cb = << >>
                           /\ Kept(resume(u)) = Kept(Cur)

\* C19 witness: a run resumed midway: the engine runs again at the time of
\* its last frame, the playback restarted, with a judgement made and a slider
\* engaged before the pause.
C19_Witness ==
    /\ isRunning
    /\ audioPlaying
    /\ audioPos = 0
    /\ currentTime > 0
    /\ Len(judgements) > 0
    /\ Len(activeSliders) > 0
    /\ onGameEndCalls = 0

\* C20: the playback clock is monotonic across pause and resume: after
\* pause() getCurrentTime() returns the position playback was paused at, and
\* resume() continues from that position.
C20_ClockMonotonic ==
    audioPlaying =>
        \A pos \in ClockReads(Cur) :
            LET p == AudioPause(Cur, pos)
            IN  /\ AudioGetCurrentTime(p, p.audioPos) = pos
                /\ AudioResume(p).audioPos = pos

\* the end-of-run condition at the engine's time: every hit object processed
\* and the time more than 1000 ms past the last object's end, or the time at
\* or past the clock's duration
RunOver ==
    LET n == Len(beatmap.hitObjects)
    IN  \/ /\ Cardinality(processedObjects) >= n
           /\ currentTime > ObjectEnd(beatmap.hitObjects[n]) + 1000
        \/ currentTime >= audioBuffer

\* C21: a frame ends the run exactly when, after the frame's judging, every
\* hit object is processed and t > E + 1000 (E the last object's end), or
\* t >= the clock's duration; update() never ends the run otherwise.
C21_EndOfRun == [][Frame => (~isRunning' <=> RunOver')]_vars

\* C21 witness: a run ended by the grace margin before the audio ran out: the
\* last object, a slider or a spinner, was judged and the time is more than
\* 1000 ms past its end.
C21_Witness ==
    /\ beatmap.loaded
    /\ ~isRunning
    /\ onGameEndCalls = 1
    /\ currentTime < audioBuffer
    /\ beatmap.hitObjects[Len(beatmap.hitObjects)].type # "circle"
    /\ RunOver

\* whether this step judged the engaged slider i with result r and took it out
\* of the active map
SliderJudged(i, r) ==
    /\ i \notin processedObjects
    /\ i \in processedObjects'
    /\ ~MapHas(activeSliders', i)
    /\ \E k \in 1..Len(judgements') :
           /\ JudgementsOf(judgements', i) = {k}
           /\ k > Len(judgements)
           /\ judgements'[k].result = r

\* whether this step left the engaged slider i engaged and unjudged
SliderKept(i) ==
    /\ i \notin processedObjects'
    /\ MapHas(activeSliders', i)
    /\ JudgementsOf(judgements', i) = {}

\* C22: an engaged slider is judged in the first update() in which
\* (t - time) / duration >= 1, 'great' if ticksHit >= tickCount * 0.5 and
\* 'good' otherwise, and leaves the active map; before that no update()
\* judges it, and it is never judged 'miss' nor by the timeout sweep.
C22_SliderJudgedAtEnd ==
    [][Frame =>
        \A k \in 1..Len(activeSliders) :
            LET a == activeSliders[k]
                slider == beatmap.hitObjects[a.index]
            IN  IF currentTime' - slider.time >= slider.duration
                THEN SliderJudged(a.index,
                                  IF a.ticksHit * 2 >= slider.tickCount
                                  THEN "great" ELSE "good")
                ELSE SliderKept(a.index)]_vars

\* C22 witness: a slider that was engaged and tracked has been judged 'great'
\* and is no longer in the active map.
C22_Witness ==
    \E k \in 1..Len(judgements) :
        /\ beatmap.hitObjects[judgements[k].hitObject].type = "slider"
        /\ judgements[k].result = "great"
        /\ judgements[k].hitObject \in processedObjects
        /\ ~MapHas(activeSliders, judgements[k].hitObject)

\* C23: a slider is engaged at most once: a click made while a slider is
\* engaged leaves its tracking state as it was, and adds no engage credit to
\* the score.
C23_EngagedOnce ==
    [][ClickStep =>
        \A k \in 1..Len(activeSliders) :
            /\ k <= Len(activeSliders')
            /\ activeSliders'[k] = activeSliders[k]
            /\ processedObjects' = processedObjects
                   => gameState'.score = gameState.score]_vars

\* C24: once tracking of an engaged slider is lost it stays lost until the
\* slider is judged: while the slider stays in the active map isHeld does not
\* become true again, no further tick is credited, and ticksHit never
\* decreases.
C24_TrackingStaysLost ==
    [][\A k \in 1..Len(activeSliders) :
           LET a == activeSliders[k] IN
           MapHas(activeSliders', a.index) =>
               LET b == activeSliders'[MapPos(activeSliders', a.index)]
               IN  /\ b.ticksHit >= a.ticksHit
                   /\ ~a.isHeld => (~b.isHeld /\ b.ticksHit = a.ticksHit)]_vars

\* C25: the progress of every engaged slider lies in [0, 1] in every state,
\* also when the slider was engaged by a click before its time and frames
\* advance before that time is reached.
C25_ProgressInRange ==
    \A k \in 1..Len(activeSliders) :
        /\ activeSliders[k].progress.n >= 0
        /\ activeSliders[k].progress.n <= activeSliders[k].progress.d

\* ceil((endTime - time) / 1000 * 2.5): the least r with r >= that quotient
CeilSpins(spinner) ==
    CHOOSE r \in 0..100 :
        /\ r * 2000 >= (spinner.endTime - spinner.time) * 5
        /\ (r - 1) * 2000 < (spinner.endTime - spinner.time) * 5

\* whether this step judged the spinner i with result r and left it out of the
\* active map
SpinnerJudged(i, r) ==
    /\ i \in processedObjects'
    /\ ~MapHas(activeSpinners', i)
    /\ \E k \in 1..Len(judgements') :
           /\ JudgementsOf(judgements', i) = {k}
           /\ k > Len(judgements)
           /\ judgements'[k].result = r

\* C26: a spinner becomes active without input in the first update() whose
\* time lies in [time, endTime] and is judged in the first update() with
\* t >= endTime: 'perfect' if spinsCompleted >= requiredSpins, 'great' if
\* spinsCompleted >= 0.5 * requiredSpins, else 'miss', with requiredSpins =
\* ceil((endTime - time) / 1000 * 2.5); a spinner that no frame saw in its
\* window is judged 'miss' once t > endTime.  Spins are counted in quarter
\* turns.
C26_SpinnerLifeCycle ==
    [][Frame =>
        \A i \in 1..Len(beatmap.hitObjects) :
            LET spinner == beatmap.hitObjects[i]
                t == currentTime'
            IN  (spinner.type = "spinner" /\ i \notin processedObjects) =>
                IF MapHas(activeSpinners, i)
                THEN LET sp == activeSpinners[MapPos(activeSpinners, i)] IN
                     /\ sp.requiredSpins = CeilSpins(spinner)
                     /\ IF t >= spinner.endTime
                        THEN SpinnerJudged(i,
                                 IF sp.spinsCompleted >= 4 * CeilSpins(spinner)
                                 THEN "perfect"
                                 ELSE IF 2 * sp.spinsCompleted >=
                                             4 * CeilSpins(spinner)
                                 THEN "great" ELSE "miss")
                        ELSE /\ i \notin processedObjects'
                             /\ MapHas(activeSpinners', i)
                             /\ activeSpinners'[MapPos(activeSpinners', i)] = sp
                ELSE IF t >= spinner.endTime
                     THEN SpinnerJudged(i, "miss")
                     ELSE IF t >= spinner.time
                     THEN /\ i \notin processedObjects'
                          /\ MapHas(activeSpinners', i)
                          /\ LET sp == activeSpinners'[MapPos(activeSpinners', i)]
                             IN  /\ sp.rotation = 0
                                 /\ sp.spinsCompleted = 0
                                 /\ sp.requiredSpins = CeilSpins(spinner)
                     ELSE /\ i \notin processedObjects'
                          /\ ~MapHas(activeSpinners', i)]_vars

\* C26 witness: a spinner that a frame activated and the pointer turned a
\* full turn has been judged 'perfect'.
C26_Witness ==
    \E k \in 1..Len(judgements) :
        /\ beatmap.hitObjects[judgements[k].hitObject].type = "spinner"
        /\ judgements[k].result = "perfect"
        /\ replayFrames.len = 0
        /\ ~MapHas(activeSpinners, judgements[k].hitObject)

\* C27: a click for which no unjudged object is both within its good window
\* and hit, a late click on a judged object included, is ignored: no error,
\* no callback, GameState, processed set, active maps and judgement log
\* unchanged; it only appends one replay frame.
C27_StrayClickIgnored ==
    [][(ClickStep /\ \A i \in 1..Len(beatmap.hitObjects) : ~ClickOn(i)) =>
        /\ gameState' = gameState
        /\ processedObjects' = processedObjects
        /\ activeSliders' = activeSliders
        /\ activeSpinners' = activeSpinners
        /\ judgements' = judgements
        /\ onJudgementCalls' = onJudgementCalls
        /\ cb' = << >>
        /\ replayFrames'.len = replayFrames.len + 1
        /\ currentTime' = currentTime /\ isRunning']_vars

\* C27 witness: two clicks were made in one frame; one judged the circle, the
\* other, on the judged circle or off it, was only recorded.
C27_Witness ==
    /\ isRunning
    /\ replayFrames.len = 2
    /\ replayFrames.last.time = currentTime
    /\ Len(judgements) = 1
    /\ judgements[1].time = currentTime
    /\ LET obj == beatmap.hitObjects[judgements[1].hitObject]
       IN  /\ obj.type = "circle"
           /\ replayFrames.last.x = obj.x /\ replayFrames.last.y = obj.y
           /\ judgements[1].result = "good"

\* C28: the replay log grows only by clicks: within a run it changes only by
\* a click accepted while the engine is running, which appends one frame
\* stamped with the engine's current time, and the frames are in
\* non-decreasing time order.
C28_ReplayLog ==
    [][replayFrames' # replayFrames =>
        \/ /\ isRunning /\ beatmap.loaded
           /\ replayFrames'.len = replayFrames.len + 1
           /\ replayFrames'.last.time = currentTime
           /\ replayFrames.len > 0 =>
                  replayFrames'.last.time >= replayFrames.last.time
        \/ NewRun]_vars

\* C29: every started run eventually ends: when update() keeps being called
\* and the audio plays until it is exhausted, with no stop requested,
\* onGameEnd is eventually invoked.
C29_RunEnds == isRunning ~> (onGameEndCalls >= 1)

\* this step is the last tick of a countdown interval, which calls start()
CountdownStarts ==
    \/ canvas.countdown = 1 /\ CountdownTick
    \/ \E k \in 1..Len(canvas.restarts) :
           canvas.restarts[k].count = 1 /\ RestartTick(k)

\* C30: a countdown starts the engine only in a live run: when its last
\* tick calls start() the canvas is mounted, and the engine is not already
\* running a run that another countdown started.
C30_CountdownStartsLiveRun ==
    [][CountdownStarts => (canvas.mounted /\ ~isRunning)]_vars

====
